---- MODULE Spec2Model ----
(***************************************************************************)
(* Model of the ONNX export / optimisation pipeline of                     *)
(* scripts/training/export_onnx.py.                                        *)
(*                                                                         *)
(* A path is a sequence of tokens, so that str.replace('.onnx', ...) and   *)
(* os.path.join are computed as the code computes them.  The filesystem is *)
(* a function from the existing paths to their contents.                   *)
(***************************************************************************)
EXTENDS Integers, Sequences, FiniteSets, TLC

VARIABLES
    args,            \* the parsed command line (parse_args)
    pc,              \* position of main / of the function it is calling
    files,           \* filesystem: existing path -> content
    model_variants,  \* main: insertion-ordered dict, as a sequence of entries
    current_best,    \* main: path of the current best variant, or None
    ret,             \* what each stage call returned ("none" before the call)
    raised,          \* the stage whose exception left main, or "none"
    tier,            \* optimize_graph: outcome of each backend tier
    sq,              \* static_quantize_model: locals and calibration reader
    verified,        \* verify_onnx: the path it was given and what it found
    report,          \* compare_models: the rows of its results list
    deployed,        \* deploy_model: the path it published to, or None
    produced,        \* history: the content of each variant when registered
    calls,           \* history: what main passed to the quantizers / comparator
    rd,              \* a CalibrationDataReader driven through get_next / rewind
    tr               \* train.py: the locals of main around its training loop

vars == <<args, pc, files, model_variants, current_best, ret, raised, tier, sq,
          verified, report, deployed, produced, calls, rd, tr>>

\* ---------------------------------------------------------------- bounds
MaxSamples == 2      \* largest --calibration-samples value explored
MaxDirFiles == 2     \* most files in a calibration directory
MaxCalls == 7        \* most get_next / rewind calls made on one reader
MaxEpochs == 4       \* largest --epochs value explored
MaxPatience == 2     \* largest --early-stopping value explored
MaxIoU == 2          \* validation IoU takes the levels 0..MaxIoU

\* --image-size, in units of pixels (one value: only shapes depend on it)
ImageSize == 256

\* ----------------------------------------------------------------- paths
None == <<>>

ONNX == ".onnx"

\* str.replace(old='.onnx', new): every occurrence of the token is replaced
RECURSIVE replace(_, _)
replace(path, new) ==
    IF path = <<>> THEN <<>>
    ELSE (IF Head(path) = ONNX THEN new ELSE <<Head(path)>>) \o replace(Tail(path), new)

\* os.path.join(directory, filename)
join(dir, name) == dir \o name

\* --output: the default, another .onnx file, a file name without '.onnx'
DefaultOutput == <<"public/models/", "nail_segmentation", ONNX>>
OutputPaths == { DefaultOutput, <<"out/", "model", ONNX>>, <<"out/", "model", ".ort">> }

\* --deploy-dir: the default and another directory
DefaultDeployDir == <<"public/models/">>
DeployDirs == { DefaultDeployDir, <<"dist/">> }

optimized_path  == replace(args.output, <<"_optimized", ONNX>>)
quantized_path  == replace(args.output, <<"_quantized", ONNX>>)
static_path     == replace(args.output, <<"_static_int8", ONNX>>)
preprocessed_path(input_path) == replace(input_path, <<"_preprocessed", ONNX>>)
config_path(output_path) == replace(output_path, <<"_config.json">>)
dest_path == join(args.deploy_dir, <<"nail_segmentation", ONNX>>)

\* ------------------------------------------------------------ filesystem
exists(p) == p \in DOMAIN files

Write(fs, p, c) == [q \in (DOMAIN fs) \cup {p} |-> IF q = p THEN c ELSE fs[q]]

Remove(fs, p) == [q \in (DOMAIN fs) \ {p} |-> fs[q]]

\* a serialized graph: the chain of transformations that produced it
Graph(ops) == [kind |-> "graph", ops |-> ops]

Transformed(c, op) == [kind |-> "graph", ops |-> (IF c.kind = "graph" THEN c.ops ELSE <<c.kind>>) \o <<op>>]

\* ------------------------------------------------- CalibrationDataReader
\* a file of the calibration directory: whether its extension is one of
\* img_extensions, and whether PIL can open and convert it
FileKinds == [ext : BOOLEAN, decodable : BOOLEAN]

\* the directory's files in sorted order, at most MaxDirFiles of them
Listings == UNION { [1..n -> FileKinds] : n \in 0..MaxDirFiles }

\* --calibration-dir: absent (the default), not a directory, or a directory
NoDir == [given |-> FALSE, isdir |-> FALSE, listing |-> <<>>]

CalibrationDirs ==
    {NoDir} \cup {[given |-> TRUE, isdir |-> FALSE, listing |-> <<>>]}
            \cup {[given |-> TRUE, isdir |-> TRUE, listing |-> l] : l \in Listings}

Min(a, b) == IF a <= b THEN a ELSE b

\* _load_from_directory: filter by extension, sort, keep the first
\* num_samples, then append every file that decodes
load_from_directory(listing, image_size, num_samples) ==
    LET has_ext(i) == listing[i].ext
        decodes(i) == listing[i].decodable
        by_ext == SelectSeq([i \in 1..Len(listing) |-> i], has_ext)
        image_files == SubSeq(by_ext, 1, Min(num_samples, Len(by_ext)))
        loaded == SelectSeq(image_files, decodes)
    IN [k \in 1..Len(loaded) |-> [source |-> "file", id |-> loaded[k], size |-> image_size]]

\* _generate_synthetic: num_samples random tensors
generate_synthetic(image_size, num_samples) ==
    [k \in 1..num_samples |-> [source |-> "synthetic", id |-> k, size |-> image_size]]

\* CalibrationDataReader.__init__
CalibrationDataReader(image_size, calibration_dir, num_samples) ==
    [current |-> 0, rewinds |-> 0,
     data |-> IF calibration_dir.given /\ calibration_dir.isdir
              THEN load_from_directory(calibration_dir.listing, image_size, num_samples)
              ELSE generate_synthetic(image_size, num_samples)]

\* get_next returns None at the end of the data
EndOfData == [source |-> "None", id |-> 0, size |-> 0]

\* CalibrationDataReader.get_next: the value returned
get_next_result(r) ==
    IF r.current >= Len(r.data) THEN EndOfData ELSE r.data[r.current + 1]

\* a get_next that starts over once the data is exhausted
get_next_wraps(r) ==
    IF r.current >= Len(r.data) THEN [r EXCEPT !.current = 0] ELSE [r EXCEPT !.current = @ + 1]

\* CalibrationDataReader.get_next: the reader afterwards
get_next(r) ==
    IF r.current >= Len(r.data) THEN r ELSE [r EXCEPT !.current = @ + 1]

\* a rewind that leaves the cursor where it is
rewind_noop(r) == [r EXCEPT !.rewinds = @ + 1]

\* CalibrationDataReader.rewind
rewind(r) == [r EXCEPT !.current = 0, !.rewinds = @ + 1]

\* ------------------------------------------------------------------ main
Stages == {"optimize", "quantize", "static", "verify"}

NoReader == [current |-> 0, rewinds |-> 0, data |-> <<>>]

\* no reader under test
NoHarness == [dir |-> NoDir, num_samples |-> 0, reader |-> NoReader,
              pass |-> <<>>, ended |-> FALSE, last |-> EndOfData,
              first |-> <<>>, has_first |-> FALSE, ncalls |-> 0]

NoStatic == [backend |-> "none", input_path |-> None, preprocess |-> "none",
             quant_input |-> None, created |-> None,
             formatA |-> "none", formatB |-> "none", used |-> <<>>,
             reader |-> NoReader]

\* nothing passed yet to the quantizers or the comparator
NoCalls == [quantize_source |-> None, quantize_backend |-> "none", quantize_read |-> Graph(<<>>),
            static_read |-> Graph(<<>>), compare |-> "none", runs |-> <<>>]

\* train.py is not running
NoTraining ==
    [epochs |-> 0, early_stopping |-> 0, save_interval |-> 1,
     resume |-> FALSE, checkpoint |-> [epoch |-> 0, val_iou |-> 0],
     start_epoch |-> 0, best_val_iou |-> 0, patience_counter |-> 0,
     training_log |-> <<>>, bound |-> FALSE, epoch |-> 0, val_iou |-> 0,
     best_model |-> <<>>, checkpoints |-> {}, final_model |-> <<>>, stopped |-> FALSE]

parse_args ==
    args \in [output : OutputPaths, deploy_dir : DeployDirs,
              optimize : BOOLEAN, quantize : BOOLEAN, static_quantize : BOOLEAN,
              verify : {TRUE}, compare : BOOLEAN, deploy : BOOLEAN,
              image_size : {ImageSize},
              calibration_dir : {NoDir},
              calibration_samples : 0..MaxSamples]

Init ==
    /\ parse_args
    /\ pc = "export"
    /\ files = << >>
    /\ model_variants = <<>>
    /\ current_best = None
    /\ ret = [s \in Stages |-> "none"]
    /\ raised = "none"
    /\ tier = [primary |-> "none", secondary |-> "none", copy |-> "none"]
    /\ sq = NoStatic
    /\ verified = [path |-> None, backend |-> "none", defect |-> "none"]
    /\ report = <<>>
    /\ deployed = None
    /\ produced = <<>>
    /\ calls = NoCalls
    /\ rd = NoHarness
    /\ tr = NoTraining

\* an exception that is swallowed: main goes on with the next step
Raise_swallowed(stage) ==
    /\ pc' = "optimize"
    /\ raised' = stage

\* an exception leaves main: the run is over
Raise(stage) ==
    /\ pc' = "raised"
    /\ raised' = stage

\* a registration that moves current_best without recording the variant
Register_unrecorded(name, path) ==
    /\ model_variants' = model_variants
    /\ current_best' = path
    /\ produced' = produced

\* a registration that records the variant but keeps the first current_best
Register_keepbest(name, path) ==
    /\ model_variants' = Append(model_variants, [name |-> name, path |-> path])
    /\ current_best' = (IF current_best = None THEN path ELSE current_best)
    /\ produced' = Append(produced, files'[path])

\* main, lines 640-641 / 648-649 / 659-660 / 674-675: the exported graph and
\* every stage that returned True is recorded and becomes the current best
Register(name, path) ==
    /\ model_variants' = Append(model_variants, [name |-> name, path |-> path])
    /\ current_best' = path
    /\ produced' = Append(produced, files'[path])

\* Step 1: export_to_onnx, then the initial model_variants / current_best
export_to_onnx ==
    /\ pc = "export"
    /\ \E outcome \in {"ok", "raises"} :
         IF outcome = "ok"
         THEN /\ files' = Write(files, args.output, Graph(<<"float32">>))
              /\ Register("float32", args.output)
              /\ pc' = "optimize"
              /\ UNCHANGED raised
         ELSE /\ Raise("export")
              /\ UNCHANGED <<files, model_variants, current_best, produced>>
    /\ UNCHANGED <<tr, rd, calls, args, ret, tier, sq, verified, report, deployed>>

\* main, lines 644-649: the caller's use of optimize_graph's result
optimize_return(v) ==
    /\ ret' = [ret EXCEPT !.optimize = v]
    /\ pc' = "quantize"
    /\ IF v = "True"
       THEN Register("optimized", optimized_path)
       ELSE UNCHANGED <<model_variants, current_best, produced>>

\* Step 2 not requested (--optimize absent)
skip_optimize ==
    /\ pc = "optimize"
    /\ ~args.optimize
    /\ pc' = "quantize"
    /\ UNCHANGED <<tr, rd, calls, args, files, model_variants, current_best, produced, ret, raised, tier, sq, verified, report, deployed>>

\* a first tier that goes on to the second tier after it succeeded
optimize_graph_primary_falls_through ==
    /\ pc = "optimize"
    /\ args.optimize
    /\ \E outcome \in {"ok", "missing", "raises"} :
         /\ tier' = [tier EXCEPT !.primary = outcome]
         /\ IF outcome = "ok"
            THEN files' = Write(files, optimized_path, Transformed(files[args.output], "ort"))
            ELSE UNCHANGED files
         /\ pc' = "opt_secondary"
         /\ UNCHANGED <<model_variants, current_best, produced, ret>>
    /\ UNCHANGED <<tr, rd, calls, args, raised, sq, verified, report, deployed>>

\* optimize_graph, first try block (lines 219-241): onnxruntime's optimizer.
\* Every exception, a missing onnxruntime included, is caught.
optimize_graph_primary ==
    /\ pc = "optimize"
    /\ args.optimize
    /\ \E outcome \in {"ok", "missing", "raises"} :
         /\ tier' = [tier EXCEPT !.primary = outcome]
         /\ IF outcome = "ok"
            THEN /\ files' = Write(files, optimized_path, Transformed(files[args.output], "ort"))
                 /\ optimize_return("True")
            ELSE /\ pc' = "opt_secondary"
                 /\ UNCHANGED <<files, model_variants, current_best, produced, ret>>
    /\ UNCHANGED <<tr, rd, calls, args, raised, sq, verified, report, deployed>>

\* optimize_graph, second try block (lines 243-278): onnxoptimizer.
\* Only ImportError is caught (line 280); any other exception leaves the call.
optimize_graph_secondary ==
    /\ pc = "opt_secondary"
    /\ \E outcome \in {"ok", "missing", "raises"} :
         /\ tier' = [tier EXCEPT !.secondary = outcome]
         /\ CASE outcome = "ok" ->
                   /\ files' = Write(files, optimized_path, Transformed(files[args.output], "onnxoptimizer"))
                   /\ optimize_return("True")
                   /\ UNCHANGED raised
              [] outcome = "missing" ->
                   /\ pc' = "opt_copy"
                   /\ UNCHANGED <<files, model_variants, current_best, produced, ret, raised>>
              [] outcome = "raises" ->
                   /\ Raise("optimize")
                   /\ ret' = [ret EXCEPT !.optimize = "raised"]
                   /\ UNCHANGED <<files, model_variants, current_best, produced>>
    /\ UNCHANGED <<tr, rd, calls, args, sq, verified, report, deployed>>

\* shutil.copy2(src, dst): SameFileError when both name the same file
copy2_raises(src, dst) == src = dst \/ ~exists(src)

copy2(fs, src, dst) == Write(fs, dst, fs[src])

\* optimize_graph, ImportError handler (lines 280-286): copy, return False
optimize_graph_copy ==
    /\ pc = "opt_copy"
    /\ IF copy2_raises(args.output, optimized_path)
       THEN /\ tier' = [tier EXCEPT !.copy = "raises"]
            /\ Raise("optimize")
            /\ ret' = [ret EXCEPT !.optimize = "raised"]
            /\ UNCHANGED <<files, model_variants, current_best, produced>>
       ELSE /\ tier' = [tier EXCEPT !.copy = "ok"]
            /\ files' = copy2(files, args.output, optimized_path)
            /\ optimize_return("False")
            /\ UNCHANGED raised
    /\ UNCHANGED <<tr, rd, calls, args, sq, verified, report, deployed>>

\* a caller that moves current_best whatever quantize_model returned
quantize_return_moved(v) ==
    /\ ret' = [ret EXCEPT !.quantize = v]
    /\ pc' = "static"
    /\ IF v = "True"
       THEN Register("dynamic-int8", quantized_path)
       ELSE /\ current_best' = quantized_path
            /\ UNCHANGED <<model_variants, produced>>

\* main, lines 652-660: the caller's use of quantize_model's result
quantize_return(v) ==
    /\ ret' = [ret EXCEPT !.quantize = v]
    /\ pc' = "static"
    /\ IF v = "True"
       THEN Register("dynamic-int8", quantized_path)
       ELSE UNCHANGED <<model_variants, current_best, produced>>

\* Step 3 not requested (--quantize absent)
skip_quantize ==
    /\ pc = "quantize"
    /\ ~args.quantize
    /\ pc' = "static"
    /\ UNCHANGED <<tr, rd, calls, args, files, model_variants, current_best, produced, ret, raised, tier, sq, verified, report, deployed>>

\* main, line 655: the dynamic quantizer's source
quantize_source == args.output

\* quantize_model (lines 184-207), called with source (line 658).
\* A missing backend returns False; quantize_dynamic itself is not guarded.
quantize_model ==
    /\ pc = "quantize"
    /\ args.quantize
    /\ \E outcome \in {"ok", "missing", "raises"} :
         /\ calls' = [calls EXCEPT !.quantize_source = quantize_source,
                                   !.quantize_backend = outcome,
                                   !.quantize_read = files[quantize_source]]
         /\ CASE outcome = "ok" ->
                /\ files' = Write(files, quantized_path, Transformed(files[quantize_source], "dynamic"))
                /\ quantize_return("True")
                /\ UNCHANGED raised
           [] outcome = "missing" ->
                /\ quantize_return("False")
                /\ UNCHANGED <<files, raised>>
           [] outcome = "raises" ->
                /\ Raise("quantize")
                /\ ret' = [ret EXCEPT !.quantize = "raised"]
                /\ UNCHANGED <<files, model_variants, current_best, produced>>
    /\ UNCHANGED <<tr, rd, args, tier, sq, verified, report, deployed>>

\* dict.get(key, default) on model_variants
get(mv, name, default) ==
    IF \E i \in 1..Len(mv) : mv[i].name = name
    THEN mv[CHOOSE i \in 1..Len(mv) : mv[i].name = name].path
    ELSE default

\* main, lines 663-675: the caller's use of static_quantize_model's result
static_return(v) ==
    /\ ret' = [ret EXCEPT !.static = v]
    /\ pc' = "verify"
    /\ IF v = "True"
       THEN Register("static-int8", static_path)
       ELSE UNCHANGED <<model_variants, current_best, produced>>

\* Step 4 not requested (--static-quantize absent)
skip_static ==
    /\ pc = "static"
    /\ ~args.static_quantize
    /\ pc' = "verify"
    /\ UNCHANGED <<tr, rd, calls, args, files, model_variants, current_best, produced, ret, raised, tier, sq, verified, report, deployed>>

\* main, line 665: the static quantizer's source
static_source == get(model_variants, "optimized", args.output)

\* static_quantize_model, lines 368-384: backend import, calibration reader
static_quantize_import ==
    /\ pc = "static"
    /\ args.static_quantize
    /\ \E outcome \in {"ok", "missing"} :
         /\ calls' = [calls EXCEPT !.static_read = files[static_source]]
         /\ IF outcome = "missing"
            THEN /\ static_return("False")
                 /\ sq' = [sq EXCEPT !.backend = "missing", !.input_path = static_source]
            ELSE /\ sq' = [sq EXCEPT !.backend = "ok",
                                     !.input_path = static_source,
                                     !.reader = CalibrationDataReader(args.image_size,
                                                    args.calibration_dir, args.calibration_samples)]
                 /\ pc' = "sq_preprocess"
                 /\ UNCHANGED <<model_variants, current_best, produced, ret>>
    /\ UNCHANGED <<tr, rd, args, files, raised, tier, verified, report, deployed>>

\* a pre-processing pass whose failure ends the call
static_quantize_preprocess_aborts ==
    /\ pc = "sq_preprocess"
    /\ \E outcome \in {"ok", "missing", "raises"} :
         IF outcome = "ok"
         THEN /\ files' = Write(files, preprocessed_path(sq.input_path),
                                Transformed(files[sq.input_path], "preprocessed"))
              /\ sq' = [sq EXCEPT !.preprocess = outcome,
                                  !.quant_input = preprocessed_path(sq.input_path),
                                  !.created = preprocessed_path(sq.input_path)]
              /\ pc' = "sq_formatA"
              /\ UNCHANGED <<ret, raised>>
         ELSE /\ sq' = [sq EXCEPT !.preprocess = outcome]
              /\ Raise("static")
              /\ ret' = [ret EXCEPT !.static = "raised"]
              /\ UNCHANGED files
    /\ UNCHANGED <<tr, rd, calls, args, model_variants, current_best, produced, tier, verified, report, deployed>>

\* static_quantize_model, lines 386-396: optional pre-processing pass
static_quantize_preprocess ==
    /\ pc = "sq_preprocess"
    /\ \E outcome \in {"ok", "missing", "raises"} :
         IF outcome = "ok"
         THEN /\ files' = Write(files, preprocessed_path(sq.input_path),
                                Transformed(files[sq.input_path], "preprocessed"))
              /\ sq' = [sq EXCEPT !.preprocess = outcome,
                                  !.quant_input = preprocessed_path(sq.input_path),
                                  !.created = preprocessed_path(sq.input_path)]
         ELSE /\ sq' = [sq EXCEPT !.preprocess = outcome, !.quant_input = sq.input_path]
              /\ UNCHANGED files
    /\ pc' = "sq_formatA"
    /\ UNCHANGED <<tr, rd, calls, args, model_variants, current_best, produced, ret, raised, tier, verified, report, deployed>>

\* static_quantize_model, lines 398-411: format A (QDQ)
static_quantize_formatA ==
    /\ pc = "sq_formatA"
    /\ \E outcome \in {"ok", "raises"} :
         IF outcome = "ok"
         THEN /\ files' = Write(files, static_path, Transformed(files[sq.quant_input], "QDQ"))
              /\ sq' = [sq EXCEPT !.formatA = "ok", !.used = Append(@, sq.quant_input),
                                  !.reader.current = Len(sq.reader.data)]
              /\ pc' = "sq_cleanup"
         ELSE /\ \E consumed \in 0..Len(sq.reader.data) :
                   sq' = [sq EXCEPT !.formatA = "raises", !.used = Append(@, sq.quant_input),
                                    !.reader.current = consumed]
              /\ pc' = "sq_formatB"
              /\ UNCHANGED files
    /\ UNCHANGED <<tr, rd, calls, args, model_variants, current_best, produced, ret, raised, tier, verified, report, deployed>>

\* static_quantize_model, lines 412-421: rewind, then format B (QOperator);
\* an exception raised here leaves the call
static_quantize_formatB ==
    /\ pc = "sq_formatB"
    /\ \E outcome \in {"ok", "raises"} :
         IF outcome = "ok"
         THEN /\ files' = Write(files, static_path, Transformed(files[sq.quant_input], "QOperator"))
              /\ sq' = [sq EXCEPT !.formatB = "ok", !.used = Append(@, sq.quant_input),
                                  !.reader = [rewind(@) EXCEPT !.current = Len(sq.reader.data)]]
              /\ pc' = "sq_cleanup"
              /\ UNCHANGED <<ret, raised>>
         ELSE /\ \E consumed \in 0..Len(sq.reader.data) :
                   sq' = [sq EXCEPT !.formatB = "raises", !.used = Append(@, sq.quant_input),
                                    !.reader = [rewind(@) EXCEPT !.current = consumed]]
              /\ Raise("static")
              /\ ret' = [ret EXCEPT !.static = "raised"]
              /\ UNCHANGED files
    /\ UNCHANGED <<tr, rd, calls, args, model_variants, current_best, produced, tier, verified, report, deployed>>

\* static_quantize_model, lines 423-437: remove the pre-processed file, then
\* read the sizes of input and output (os.path.getsize raises on a missing file)
static_quantize_cleanup ==
    /\ pc = "sq_cleanup"
    /\ LET pre == preprocessed_path(sq.input_path)
           fs  == IF pre \in DOMAIN files THEN Remove(files, pre) ELSE files
       IN /\ files' = fs
          /\ IF sq.input_path \in DOMAIN fs /\ static_path \in DOMAIN fs
             THEN /\ static_return("True")
                  /\ UNCHANGED raised
             ELSE /\ Raise("static")
                  /\ ret' = [ret EXCEPT !.static = "raised"]
                  /\ UNCHANGED <<model_variants, current_best, produced>>
    /\ UNCHANGED <<tr, rd, calls, args, tier, sq, verified, report, deployed>>

\* the defects a serialized graph can have: it fails onnx.checker, its
\* output has the wrong shape, or an output value lies outside [0, 1]
Defects == {"none", "structure", "shape", "range"}

\* a verifier without the output-shape assertion
verify_returns_noshape(backend, defect) ==
    backend = "missing" \/ defect \in {"none", "shape"}

\* a verifier without the output-range assertion
verify_returns_norange(backend, defect) ==
    backend = "missing" \/ defect \in {"none", "range"}

\* verify_onnx, lines 125-166: returns True (rather than raising) when the
\* backends are missing (lines 128-130) or every check and assertion holds
verify_returns(backend, defect) ==
    backend = "missing" \/ defect = "none"

\* a Step 5 that verifies the current best variant
verify_onnx_best ==
    /\ pc = "verify"
    /\ args.verify
    /\ \E backend \in {"ok", "missing"}, defect \in Defects :
         /\ verified' = [path |-> current_best, backend |-> backend, defect |-> defect]
         /\ IF verify_returns(backend, defect)
            THEN /\ ret' = [ret EXCEPT !.verify = "True"]
                 /\ pc' = "compare"
                 /\ UNCHANGED raised
            ELSE /\ ret' = [ret EXCEPT !.verify = "raised"]
                 /\ Raise("verify")
    /\ UNCHANGED <<tr, rd, calls, args, files, model_variants, current_best, produced, tier, sq, report, deployed>>

\* Step 5: verify_onnx(args.output) (lines 123-181); args.verify is always
\* True (line 72).  A missing onnx / onnxruntime returns True unchecked.
verify_onnx ==
    /\ pc = "verify"
    /\ args.verify
    /\ \E backend \in {"ok", "missing"}, defect \in Defects :
         /\ verified' = [path |-> args.output, backend |-> backend, defect |-> defect]
         /\ IF verify_returns(backend, defect)
            THEN /\ ret' = [ret EXCEPT !.verify = "True"]
                 /\ pc' = "compare"
                 /\ UNCHANGED raised
            ELSE /\ ret' = [ret EXCEPT !.verify = "raised"]
                 /\ Raise("verify")
    /\ UNCHANGED <<tr, rd, calls, args, files, model_variants, current_best, produced, tier, sq, report, deployed>>

\* os.path.getsize, in units: the size of a graph follows from how it was made
RECURSIVE size_of_ops(_)
size_of_ops(ops) ==
    IF ops = <<>> THEN 0
    ELSE LET s  == size_of_ops(SubSeq(ops, 1, Len(ops) - 1))
             op == ops[Len(ops)]
         IN CASE op = "float32"       -> 16
              [] op = "ort"           -> s - 1
              [] op = "onnxoptimizer" -> s - 2
              [] op = "preprocessed"  -> s + 1
              [] op = "dynamic"       -> s \div 2
              [] op = "QDQ"           -> (s \div 4) + 1
              [] op = "QOperator"     -> s \div 4
              [] OTHER                -> 1

getsize(fs, p) == size_of_ops(fs[p].ops)

\* a comparison loop that stops at the first variant whose inference raises
RECURSIVE compare_rows_abort(_, _, _, _)
compare_rows_abort(fs, mv, runs, reference) ==
    IF mv = <<>> THEN <<>>
    ELSE LET v == Head(mv) IN
         IF v.path \notin DOMAIN fs
         THEN compare_rows_abort(fs, Tail(mv), Tail(runs), reference)
         ELSE IF Head(runs) = "raises"
         THEN <<[name |-> v.name, size_mb |-> getsize(fs, v.path), avg_ms |-> -1,
                 similarity |-> "error", against |-> "none"]>>
         ELSE IF reference = "none"
         THEN <<[name |-> v.name, size_mb |-> getsize(fs, v.path), avg_ms |-> 1,
                 similarity |-> "reference", against |-> "none"]>>
              \o compare_rows_abort(fs, Tail(mv), Tail(runs), v.name)
         ELSE <<[name |-> v.name, size_mb |-> getsize(fs, v.path), avg_ms |-> 1,
                 similarity |-> "computed", against |-> reference]>>
              \o compare_rows_abort(fs, Tail(mv), Tail(runs), reference)

\* compare_models, loop body (lines 464-524) from entry i on; reference is
\* the name of the variant whose output is reference_output, or "none"
RECURSIVE compare_rows(_, _, _, _)
compare_rows(fs, mv, runs, reference) ==
    IF mv = <<>> THEN <<>>
    ELSE LET v == Head(mv) IN
         IF v.path \notin DOMAIN fs
         THEN compare_rows(fs, Tail(mv), Tail(runs), reference)
         ELSE IF Head(runs) = "raises"
         THEN <<[name |-> v.name, size_mb |-> getsize(fs, v.path), avg_ms |-> -1,
                 similarity |-> "error", against |-> "none"]>>
              \o compare_rows(fs, Tail(mv), Tail(runs), reference)
         ELSE IF reference = "none"
         THEN <<[name |-> v.name, size_mb |-> getsize(fs, v.path), avg_ms |-> 1,
                 similarity |-> "reference", against |-> "none"]>>
              \o compare_rows(fs, Tail(mv), Tail(runs), v.name)
         ELSE <<[name |-> v.name, size_mb |-> getsize(fs, v.path), avg_ms |-> 1,
                 similarity |-> "computed", against |-> reference]>>
              \o compare_rows(fs, Tail(mv), Tail(runs), reference)

\* Step 6 skipped: --compare absent or a single variant (line 683)
skip_compare ==
    /\ pc = "compare"
    /\ ~(args.compare /\ Len(model_variants) > 1)
    /\ pc' = "config"
    /\ UNCHANGED <<tr, rd, calls, args, files, model_variants, current_best, produced, ret, raised, tier, sq, verified, report, deployed>>

\* a comparator that makes the first variant the current best
compare_models_selects ==
    /\ pc = "compare"
    /\ args.compare /\ Len(model_variants) > 1
    /\ \E runs \in [1..Len(model_variants) -> {"ok", "raises"}] :
          /\ calls' = [calls EXCEPT !.compare = "ran", !.runs = runs]
          /\ report' = compare_rows(files, model_variants, runs, "none")
    /\ current_best' = model_variants[1].path
    /\ pc' = "config"
    /\ UNCHANGED <<tr, rd, args, files, model_variants, produced, ret, raised, tier, sq, verified, deployed>>

\* Step 6: compare_models(model_variants) (lines 440-543)
compare_models ==
    /\ pc = "compare"
    /\ args.compare /\ Len(model_variants) > 1
    /\ \/ /\ calls' = [calls EXCEPT !.compare = "missing"]   \* no onnxruntime: return
          /\ UNCHANGED report
       \/ \E runs \in [1..Len(model_variants) -> {"ok", "raises"}] :
             /\ calls' = [calls EXCEPT !.compare = "ran", !.runs = runs]
             /\ report' = compare_rows(files, model_variants, runs, "none")
    /\ pc' = "config"
    /\ UNCHANGED <<tr, rd, args, files, model_variants, current_best, produced, ret, raised, tier, sq, verified, deployed>>

\* the descriptor written by generate_model_config
Config(output_path, image_size, file_size) ==
    [kind |-> "config", modelPath |-> output_path,
     inputShape |-> <<1, 3, image_size, image_size>>,
     outputShape |-> <<1, 1, image_size, image_size>>,
     imageSize |-> image_size, fileSizeMB |-> file_size, threshold |-> "0.5"]

\* a descriptor that always reports the size of the float32 export
generate_model_config_float32(fs, output_path, image_size, file_size) ==
    Write(fs, config_path(output_path),
          Config(output_path, image_size, size_of_ops(<<"float32">>)))

\* generate_model_config (lines 567-592): the filesystem after the write
generate_model_config(fs, output_path, image_size, file_size) ==
    Write(fs, config_path(output_path), Config(output_path, image_size, file_size))

\* Step 7 (lines 686-688): size of current_best, then the descriptor of
\* args.output with the size export_to_onnx returned
main_config ==
    /\ pc = "config"
    /\ IF current_best \notin DOMAIN files
       THEN /\ Raise("config")
            /\ UNCHANGED files
       ELSE /\ files' = generate_model_config(files, args.output, args.image_size,
                                              size_of_ops(<<"float32">>))
            /\ pc' = "deploy"
            /\ UNCHANGED raised
    /\ UNCHANGED <<tr, rd, calls, args, model_variants, current_best, produced, ret, tier, sq, verified, report, deployed>>

\* Step 8 not requested (--deploy absent)
skip_deploy ==
    /\ pc = "deploy"
    /\ ~args.deploy
    /\ pc' = "done"
    /\ UNCHANGED <<tr, rd, calls, args, files, model_variants, current_best, produced, ret, raised, tier, sq, verified, report, deployed>>

\* Step 8: deploy_model(current_best, args.deploy_dir, ...) (lines 546-564)
deploy_model ==
    /\ pc = "deploy"
    /\ args.deploy
    /\ IF copy2_raises(current_best, dest_path)
       THEN /\ Raise("deploy")
            /\ UNCHANGED <<files, deployed>>
       ELSE /\ LET fs == copy2(files, current_best, dest_path)
               IN files' = generate_model_config(fs, dest_path, args.image_size,
                                                 IF fs[dest_path].kind = "graph"
                                                 THEN getsize(fs, dest_path) ELSE 1)
            /\ deployed' = dest_path
            /\ pc' = "done"
            /\ UNCHANGED raised
    /\ UNCHANGED <<tr, rd, calls, args, model_variants, current_best, produced, ret, tier, sq, verified, report>>

Next ==
    \/ export_to_onnx
    \/ skip_optimize
    \/ optimize_graph_primary
    \/ optimize_graph_secondary
    \/ optimize_graph_copy
    \/ skip_quantize
    \/ quantize_model
    \/ skip_static
    \/ static_quantize_import
    \/ static_quantize_preprocess
    \/ static_quantize_formatA
    \/ static_quantize_formatB
    \/ static_quantize_cleanup
    \/ verify_onnx
    \/ skip_compare
    \/ compare_models
    \/ main_config
    \/ skip_deploy
    \/ deploy_model

Spec == Init /\ [][Next]_vars

\* ------------------------------------- a CalibrationDataReader on its own
\* the command line when nothing was given but --checkpoint
DefaultArgs ==
    [output |-> DefaultOutput, deploy_dir |-> DefaultDeployDir,
     optimize |-> FALSE, quantize |-> FALSE, static_quantize |-> FALSE,
     verify |-> TRUE, compare |-> FALSE, deploy |-> FALSE,
     image_size |-> ImageSize, calibration_dir |-> NoDir, calibration_samples |-> 0]

\* a reader just constructed from a directory and a sample count
InitReader ==
    /\ args = DefaultArgs
    /\ pc = "reader"
    /\ files = << >>
    /\ model_variants = <<>>
    /\ current_best = None
    /\ ret = [s \in Stages |-> "none"]
    /\ raised = "none"
    /\ tier = [primary |-> "none", secondary |-> "none", copy |-> "none"]
    /\ sq = NoStatic
    /\ verified = [path |-> None, backend |-> "none", defect |-> "none"]
    /\ report = <<>>
    /\ deployed = None
    /\ produced = <<>>
    /\ calls = NoCalls
    /\ \E dir \in CalibrationDirs, n \in 0..MaxSamples :
          rd = [NoHarness EXCEPT !.dir = dir, !.num_samples = n,
                                 !.reader = CalibrationDataReader(ImageSize, dir, n)]
    /\ tr = NoTraining

pipeline_vars == <<args, pc, files, model_variants, current_best, ret, raised, tier, sq,
                   verified, report, deployed, produced, calls>>

\* the quantizer calls get_next (lines 348-354)
reader_get_next ==
    /\ pc = "reader"
    /\ rd.ncalls < MaxCalls
    /\ LET result == get_next_result(rd.reader)
           pass == IF result = EndOfData THEN rd.pass ELSE Append(rd.pass, result)
           first_ends == result = EndOfData /\ ~rd.has_first
       IN rd' = [rd EXCEPT !.reader = get_next(rd.reader),
                           !.last = result,
                           !.pass = pass,
                           !.ended = (result = EndOfData),
                           !.first = IF first_ends THEN pass ELSE @,
                           !.has_first = @ \/ first_ends,
                           !.ncalls = @ + 1]
    /\ UNCHANGED <<pipeline_vars, tr>>

\* the quantizer calls rewind (lines 356-357)
reader_rewind ==
    /\ pc = "reader"
    /\ rd.ncalls < MaxCalls
    /\ rd' = [rd EXCEPT !.reader = rewind(rd.reader),
                        !.pass = <<>>, !.ended = FALSE, !.ncalls = @ + 1]
    /\ UNCHANGED <<pipeline_vars, tr>>

NextReader ==
    \/ reader_get_next
    \/ reader_rewind

SpecReader == InitReader /\ [][NextReader]_vars

\* ------------------------------------------ train.py: the training loop
\* the levels a validation IoU can take
IoUs == 0..MaxIoU

\* the checkpoint given to --resume: its epoch and its metrics' val_iou
Checkpoints == [epoch : 0..MaxEpochs, val_iou : IoUs]

\* save_checkpoint(model, optimizer, scheduler, epoch, metrics, path): what
\* the file at path then records
save_checkpoint(epoch, val_iou) == [epoch |-> epoch, val_iou |-> val_iou]

\* main of train.py after its Resume block (lines 282-305)
InitTrain ==
    /\ args = DefaultArgs
    /\ pc = "train"
    /\ files = << >>
    /\ model_variants = <<>>
    /\ current_best = None
    /\ ret = [s \in Stages |-> "none"]
    /\ raised = "none"
    /\ tier = [primary |-> "none", secondary |-> "none", copy |-> "none"]
    /\ sq = NoStatic
    /\ verified = [path |-> None, backend |-> "none", defect |-> "none"]
    /\ report = <<>>
    /\ deployed = None
    /\ produced = <<>>
    /\ calls = NoCalls
    /\ rd = NoHarness
    /\ \E epochs \in 0..MaxEpochs, early_stopping \in 0..MaxPatience,
          save_interval \in 1..2, resume \in BOOLEAN, checkpoint \in Checkpoints :
          /\ ~resume => checkpoint = [epoch |-> 0, val_iou |-> 0]
          /\ tr = [NoTraining EXCEPT
                      !.epochs = epochs,
                      !.early_stopping = early_stopping,
                      !.save_interval = save_interval,
                      !.resume = resume,
                      !.checkpoint = checkpoint,
                      !.start_epoch = IF resume THEN checkpoint.epoch + 1 ELSE 0,
                      !.best_val_iou = IF resume THEN checkpoint.val_iou ELSE 0]

\* the variables train.py has nothing to do with
export_vars == <<args, files, model_variants, current_best, ret, tier, sq,
                 verified, report, deployed, produced, calls, rd>>

\* for epoch in range(start_epoch, args.epochs): the next value of epoch
range_next(t) == IF t.bound THEN t.epoch + 1 ELSE t.start_epoch

\* a comparison that takes an equal IoU for an improvement
improves_or_equal(val_iou, best) == val_iou >= best

\* line 350: val_metrics['iou'] > best_val_iou
improves(val_iou, best) == val_iou > best

\* one iteration of the training loop (lines 307-378)
loop_body ==
    /\ pc = "train"
    /\ range_next(tr) < tr.epochs
    /\ \E iou \in IoUs :
         LET epoch == range_next(tr)
             better == improves(iou, tr.best_val_iou)
             patience_counter == IF better THEN 0 ELSE tr.patience_counter + 1
             stop == patience_counter >= tr.early_stopping
         IN /\ tr' = [tr EXCEPT
                         !.bound = TRUE, !.epoch = epoch, !.val_iou = iou,
                         !.training_log = Append(@, [epoch |-> epoch, val_iou |-> iou]),
                         !.best_val_iou = IF better THEN iou ELSE @,
                         !.patience_counter = patience_counter,
                         !.best_model = IF better THEN Append(@, save_checkpoint(epoch, iou)) ELSE @,
                         !.checkpoints = IF (epoch + 1) % tr.save_interval = 0
                                         THEN @ \cup {epoch} ELSE @,
                         !.stopped = stop]
            /\ pc' = IF stop THEN "final_model" ELSE "train"
    /\ UNCHANGED <<export_vars, raised>>

\* the range is exhausted: the loop ends without break
loop_exhausted ==
    /\ pc = "train"
    /\ range_next(tr) >= tr.epochs
    /\ pc' = "final_model"
    /\ UNCHANGED <<export_vars, raised, tr>>

\* lines 380-385: save final_model.pth from epoch and val_metrics, which are
\* unbound when the loop body never ran
save_final_model ==
    /\ pc = "final_model"
    /\ IF tr.bound
       THEN /\ tr' = [tr EXCEPT !.final_model = Append(@, save_checkpoint(tr.epoch, tr.val_iou))]
            /\ pc' = "trained"
            /\ UNCHANGED raised
       ELSE /\ Raise("final_model")
            /\ UNCHANGED tr
    /\ UNCHANGED export_vars

NextTrain ==
    \/ loop_body
    \/ loop_exhausted
    \/ save_final_model

SpecTrain == InitTrain /\ [][NextTrain]_vars

\* the interpreter keeps running main until it returns or raises
SpecTrainFair == SpecTrain /\ WF_vars(NextTrain)

\* ------------------------------------------------------------ properties
ExportCompleted == pc # "export" /\ raised # "export"

\* the producing stages (export, optimize, quantizers) are behind main
ProducingDone ==
    \/ pc \in {"verify", "compare", "config", "deploy", "done"}
    \/ raised \in {"verify", "config", "deploy"}

\* the path written by the last producing stage that returned True
LastSuccess ==
    IF ret.static = "True" THEN static_path
    ELSE IF ret.quantize = "True" THEN quantized_path
    ELSE IF ret.optimize = "True" THEN optimized_path
    ELSE args.output

\* the entry of model_variants that set current_best: the last one at that path
BestIndex ==
    CHOOSE i \in 1..Len(model_variants) :
        /\ model_variants[i].path = current_best
        /\ \A j \in (i + 1)..Len(model_variants) : model_variants[j].path # current_best

\* C1: once the export stage has completed, current_best is not None and is
\* the path of some entry of model_variants, whatever the later stages did.
Thm_C1 ==
    ExportCompleted =>
        /\ current_best # None
        /\ \E i \in 1..Len(model_variants) : model_variants[i].path = current_best

\* all four variants registered, the last one being the current best
Wit_C1 ==
    /\ pc = "done"
    /\ Len(model_variants) = 4
    /\ current_best = static_path
    /\ current_best # args.output

\* C2: after the producing stages, current_best is the output of the last
\* stage (export < optimize < dynamic < static) that was enabled and returned
\* True; verify, compare, config and deploy leave it there.
Thm_C2 == ProducingDone => current_best = LastSuccess

\* optimize and dynamic quantize succeeded, static quantize returned False,
\* the comparison measured every variant: the dynamic variant stays the best
Wit_C2 ==
    /\ pc = "done"
    /\ ret.optimize = "True" /\ ret.quantize = "True" /\ ret.static = "False"
    /\ Len(report) = 3
    /\ current_best = quantized_path
    /\ quantized_path # optimized_path

\* C3: optimize_graph never raises into its caller, whatever the primary and
\* the secondary backend do.
Claim_C3 == ret.optimize # "raised" /\ raised # "optimize"

\* optimize_graph has returned to main or raised
OptimizeFinished == ret.optimize # "none"

\* C4: with both optimization backends missing, optimize_graph leaves a
\* byte-for-byte copy of the input at output_path and reports success.
Claim_C4 ==
    (tier.primary = "missing" /\ tier.secondary = "missing" /\ OptimizeFinished
        /\ pc \in {"quantize", "raised"}) =>
        /\ ret.optimize = "True"
        /\ exists(optimized_path)
        /\ files[optimized_path] = produced[1]

\* C5: once static_quantize_model has returned or raised, the pre-processed
\* file it created no longer exists.
Claim_C5 ==
    (ret.static # "none" /\ sq.created # None) => ~exists(sq.created)

\* C6: format B runs only after format A raised; the reader is then rewound
\* exactly once and the call succeeds when format B succeeds; when format A
\* succeeds the reader is never rewound.
Claim_C6 ==
    /\ sq.formatB # "none" => sq.formatA = "raises"
    /\ sq.formatB # "none" => sq.reader.rewinds = 1
    /\ (sq.formatB = "ok" /\ ret.static # "none") => ret.static = "True"
    /\ sq.formatA = "ok" => sq.reader.rewinds = 0

\* C7: with the quantization backend available, static_quantize_model raises
\* exactly when both format attempts raised.
Claim_C7 ==
    (sq.backend = "ok" /\ ret.static # "none") =>
        (ret.static = "raised" <=> (sq.formatA = "raises" /\ sq.formatB = "raises"))

\* C8: no failure inside the optimize, dynamic-quantize, static-quantize or
\* compare stage terminates the run.
Claim_C8 == raised \notin {"optimize", "quantize", "static", "compare"}

\* C9: the artifact of every registered variant still exists with the content
\* it had when its stage produced it.
Claim_C9 ==
    \A i \in 1..Len(model_variants) :
        /\ exists(model_variants[i].path)
        /\ files[model_variants[i].path] = produced[i]

\* C10: when deployment is requested and every earlier stage has finished,
\* deploy_model completes and the published file has the content of the
\* artifact current_best refers to.
Claim_C10 ==
    (args.deploy /\ (pc = "done" \/ raised = "deploy")) =>
        /\ raised = "none"
        /\ deployed = dest_path
        /\ exists(dest_path)
        /\ files[dest_path] = produced[BestIndex]

\* C11: the dynamic quantizer is given the export path, which is not the
\* optimizer's output, and what it reads there is the raw export.
Claim_C11 ==
    calls.quantize_source # None =>
        /\ calls.quantize_source = args.output
        /\ ret.optimize = "True" => calls.quantize_source # optimized_path
        /\ calls.quantize_read = produced[1]

\* C12: the static quantizer is given the optimizer's output when the
\* optimize stage registered one and the raw export otherwise, and never the
\* dynamic-quantized variant.
Claim_C12 ==
    sq.input_path # None =>
        /\ ret.optimize = "True" =>
              (sq.input_path = optimized_path /\ calls.static_read = produced[2])
        /\ ret.optimize # "True" =>
              (sq.input_path = args.output /\ calls.static_read = produced[1])
        /\ ret.quantize = "True" => sq.input_path # quantized_path

\* C13: a quantizer whose backend is missing returns False without raising,
\* and main goes on to the next step with model_variants and current_best
\* as they were before the call.
Thm_C13 ==
    [][ /\ (calls.quantize_backend = "none" /\ calls'.quantize_backend = "missing") =>
              /\ ret'.quantize = "False" /\ raised' = "none" /\ pc' = "static"
              /\ model_variants' = model_variants /\ current_best' = current_best
        /\ (sq.backend = "none" /\ sq'.backend = "missing") =>
              /\ ret'.static = "False" /\ raised' = "none" /\ pc' = "verify"
              /\ model_variants' = model_variants /\ current_best' = current_best
      ]_vars

\* both quantizers were skipped for a missing backend after a successful
\* optimization, and the run went on to its end with the optimized variant
Wit_C13 ==
    /\ calls.quantize_backend = "missing" /\ sq.backend = "missing"
    /\ ret.optimize = "True" /\ ret.quantize = "False" /\ ret.static = "False"
    /\ pc = "done"
    /\ current_best = optimized_path /\ Len(model_variants) = 2

\* no descriptor has been written anywhere
NoDescriptor == \A p \in DOMAIN files : files[p].kind # "config"

\* the verifier raised, the run is over, nothing was published
VerifierStopped ==
    /\ ret.verify = "raised" /\ raised = "verify" /\ pc = "raised"
    /\ NoDescriptor
    /\ deployed = None

\* C14: a verified graph with a structural, shape or range defect makes the
\* Verifier raise and the run end without descriptor or deployment.
Claim_C14 == verified.defect # "none" => VerifierStopped

\* C14, amended: the same, when onnx and onnxruntime are importable.
Thm_C14 == (verified.backend = "ok" /\ verified.defect # "none") => VerifierStopped

\* a run with --deploy whose export has values outside [0, 1]
Wit_C14 ==
    /\ verified.backend = "ok" /\ verified.defect = "range"
    /\ args.deploy /\ ret.optimize = "True"
    /\ pc = "raised"

\* C15: when export_to_onnx raises, the run is over at once: no later stage
\* has run and model_variants / current_best were never created.
Thm_C15 ==
    raised = "export" =>
        /\ pc = "raised"
        /\ model_variants = <<>> /\ current_best = None /\ produced = <<>>
        /\ files = << >>
        /\ \A st \in Stages : ret[st] = "none"
        /\ tier.primary = "none" /\ sq = NoStatic /\ calls = NoCalls
        /\ verified.path = None /\ report = <<>> /\ deployed = None

\* the export of a full pipeline (every flag set) raised
Wit_C15 ==
    /\ raised = "export"
    /\ args.optimize /\ args.quantize /\ args.static_quantize /\ args.compare /\ args.deploy

\* C16: a full iteration that follows a rewind yields the samples of the
\* first full iteration, in the same order; the stored data never changes.
Thm_C16 ==
    /\ rd.reader.data = CalibrationDataReader(ImageSize, rd.dir, rd.num_samples).data
    /\ (rd.has_first /\ rd.ended /\ rd.reader.rewinds > 0) => rd.pass = rd.first

\* two samples, iterated fully, rewound, iterated fully again
Wit_C16 ==
    /\ rd.has_first /\ rd.ended /\ rd.reader.rewinds = 1
    /\ Len(rd.first) = 2 /\ Len(rd.pass) = 2 /\ rd.ncalls = 7

\* the directory has no file that decodes (or is no directory at all)
NoDecodable(dir) ==
    ~dir.isdir \/ \A i \in 1..Len(dir.listing) : ~dir.listing[i].decodable

\* C17: without a directory, or with one that yields no decodable image, the
\* reader holds exactly num_samples synthetic samples.
Claim_C17 ==
    (pc = "reader" /\ (~rd.dir.given \/ NoDecodable(rd.dir))) =>
        /\ Len(rd.reader.data) = rd.num_samples
        /\ \A k \in 1..Len(rd.reader.data) : rd.reader.data[k].source = "synthetic"

\* C18: with a directory holding a decodable image (and num_samples >= 1) the
\* reader holds between 1 and num_samples samples, each from a decodable file.
Claim_C18 ==
    (/\ pc = "reader" /\ rd.dir.given /\ rd.dir.isdir /\ rd.num_samples >= 1
     /\ \E i \in 1..Len(rd.dir.listing) : rd.dir.listing[i].ext /\ rd.dir.listing[i].decodable) =>
        /\ Len(rd.reader.data) >= 1
        /\ Len(rd.reader.data) <= rd.num_samples
        /\ \A k \in 1..Len(rd.reader.data) :
              /\ rd.reader.data[k].source = "file"
              /\ rd.dir.listing[rd.reader.data[k].id].decodable

\* C19: the first entry of the mapping is the reference: its row is marked
\* "reference" and every other similarity is computed against it.
Claim_C19 ==
    calls.compare = "ran" =>
        /\ report # <<>>
        /\ report[1].name = model_variants[1].name
        /\ report[1].similarity = "reference"
        /\ \A i \in 2..Len(report) :
              report[i].similarity = "computed" => report[i].against = model_variants[1].name

\* C20: every variant gets one row, in order; a variant whose inference
\* raised has latency -1 and an error in its similarity field, the others a
\* measured latency; a working first and a raising second variant give one
\* reference row and one error row.
Thm_C20 ==
    calls.compare = "ran" =>
        /\ Len(report) = Len(model_variants)
        /\ \A i \in 1..Len(report) :
              /\ report[i].name = model_variants[i].name
              /\ calls.runs[i] = "raises" =>
                    (report[i].avg_ms = -1 /\ report[i].similarity = "error")
              /\ calls.runs[i] = "ok" =>
                    (report[i].avg_ms > 0 /\ report[i].similarity # "error")
        /\ (Len(model_variants) = 2 /\ calls.runs = <<"ok", "raises">>) =>
              (report[1].similarity = "reference" /\ report[2].similarity = "error")

\* three variants compared, the second one raising, the third still measured
Wit_C20 ==
    /\ calls.compare = "ran"
    /\ Len(model_variants) = 3
    /\ calls.runs = <<"ok", "raises", "ok">>
    /\ report[2].avg_ms = -1 /\ report[3].similarity = "computed"

\* a step that leaves model_variants, current_best and every variant's file alone
ReadOnlyStep ==
    /\ model_variants' = model_variants
    /\ current_best' = current_best
    /\ \A i \in 1..Len(model_variants) :
          model_variants[i].path \in DOMAIN files =>
             /\ model_variants[i].path \in DOMAIN files'
             /\ files'[model_variants[i].path] = files[model_variants[i].path]

\* C21: a step taken at the verify or compare stage leaves model_variants,
\* current_best and the file of every variant as they were.
Thm_C21 == [][(pc \in {"verify", "compare"}) => ReadOnlyStep]_vars

\* verify ran with its backends and compare measured four variants
Wit_C21 ==
    /\ pc = "config"
    /\ ret.verify = "True" /\ verified.backend = "ok"
    /\ calls.compare = "ran" /\ Len(report) = 4

\* the size os.path.getsize reports for a file, in units
SizeOf(c) == IF c.kind = "graph" THEN size_of_ops(c.ops) ELSE 1

\* C22: after deploy_model completed, the descriptor beside the deployed file
\* has inputShape [1,3,S,S], outputShape [1,1,S,S], imageSize S, threshold
\* 0.5, and as fileSizeMB the size of the deployed file, which is the file
\* current_best names.
Thm_C22 ==
    deployed # None =>
        LET c == join(args.deploy_dir, <<"nail_segmentation", "_config.json">>)
            S == args.image_size
        IN /\ c \in DOMAIN files
           /\ files[c].kind = "config"
           /\ files[c].inputShape = <<1, 3, S, S>>
           /\ files[c].outputShape = <<1, 1, S, S>>
           /\ files[c].imageSize = S
           /\ files[c].threshold = "0.5"
           /\ files[c].fileSizeMB = SizeOf(files[deployed])
           /\ files[deployed] = files[current_best]

\* a static-int8 variant, smaller than the export, was deployed
Wit_C22 ==
    /\ deployed # None /\ pc = "done"
    /\ current_best = static_path /\ ret.optimize = "True" /\ ret.static = "True"
    /\ SizeOf(files[deployed]) < size_of_ops(<<"float32">>)

\* a tier of optimize_graph failed
TierFailed(t) == t \in {"missing", "raises"}

\* C23: the secondary tier runs only after the primary failed, the copy only
\* after both failed, and nothing runs after a tier that succeeded.
Thm_C23 ==
    /\ pc = "opt_secondary" => TierFailed(tier.primary)
    /\ pc = "opt_copy" => (TierFailed(tier.primary) /\ TierFailed(tier.secondary))
    /\ tier.secondary # "none" => TierFailed(tier.primary)
    /\ tier.copy # "none" => (TierFailed(tier.primary) /\ TierFailed(tier.secondary))
    /\ tier.primary = "ok" => (tier.secondary = "none" /\ tier.copy = "none")
    /\ tier.secondary = "ok" => tier.copy = "none"

\* the primary tier raised, the secondary succeeded, no copy was made
Wit_C23 ==
    /\ tier.primary = "raises" /\ tier.secondary = "ok" /\ tier.copy = "none"
    /\ ret.optimize = "True" /\ pc = "done"

\* C24: a pre-processing pass that failed does not end the call; every format
\* attempt is given the input path when it failed and the pre-processed path
\* when it succeeded, and finds there the graph it is meant to find.
Thm_C24 ==
    /\ TierFailed(sq.preprocess) =>
          (pc = "sq_formatA" \/ Len(sq.used) >= 1)
    /\ \A i \in 1..Len(sq.used) :
          sq.used[i] = IF sq.preprocess = "ok"
                       THEN preprocessed_path(sq.input_path) ELSE sq.input_path
    /\ pc \in {"sq_formatA", "sq_formatB"} =>
          files[sq.quant_input] = IF sq.preprocess = "ok"
                                  THEN Transformed(calls.static_read, "preprocessed")
                                  ELSE calls.static_read

\* pre-processing raised, format A raised, format B succeeded on the input
Wit_C24 ==
    /\ sq.preprocess = "raises" /\ sq.formatA = "raises" /\ sq.formatB = "ok"
    /\ sq.used = <<sq.input_path, sq.input_path>>
    /\ ret.static = "True"

\* C25: within a pass the samples returned so far are samples 1..cursor in
\* order, the cursor stays within 0..k, and once the end was reported the
\* cursor is k and every further call reports the end again.
Thm_C25 ==
    pc = "reader" =>
        /\ rd.reader.current \in 0..Len(rd.reader.data)
        /\ rd.pass = SubSeq(rd.reader.data, 1, rd.reader.current)
        /\ rd.ended => (rd.reader.current = Len(rd.reader.data) /\ rd.last = EndOfData)
        /\ (~rd.ended /\ rd.pass # <<>>) => rd.last = rd.reader.data[rd.reader.current]

\* two samples returned, then the end reported twice, without any rewind
Wit_C25 ==
    /\ rd.reader.rewinds = 0 /\ rd.ncalls = 4
    /\ rd.ended /\ rd.last = EndOfData
    /\ Len(rd.pass) = 2 /\ rd.reader.current = 2

\* C26: once the export is written, the locations of the four variants and
\* of the transient pre-processed file are pairwise distinct.
Claim_C26 ==
    ExportCompleted =>
        Cardinality({args.output, optimized_path, quantized_path, static_path,
                     preprocessed_path(static_source)}) = 5

\* main has got to the deploy stage
ReachedDeploy == args.deploy /\ (pc = "deploy" \/ deployed # None \/ raised = "deploy")

\* C27: when the run reaches the deploy stage, current_best is the path the
\* Verifier was run on, with its backends, and it passed.
Claim_C27 ==
    ReachedDeploy =>
        /\ ret.verify = "True" /\ verified.backend = "ok" /\ verified.defect = "none"
        /\ verified.path = current_best

\* C27, amended: when the run reaches the deploy stage, verify_onnx was run
\* on args.output and returned True, unchecked when its backends are missing;
\* current_best is that path exactly when no later stage's output replaced it.
Thm_C27 ==
    ReachedDeploy =>
        /\ ret.verify = "True"
        /\ verified.path = args.output
        /\ verified.backend = "ok" => verified.defect = "none"
        /\ current_best = verified.path <=> LastSuccess = args.output

\* a static-int8 variant was deployed after the float32 export was verified
Wit_C27 ==
    /\ deployed # None
    /\ verified.backend = "ok" /\ verified.path = args.output
    /\ current_best = static_path /\ current_best # verified.path

\* C28: verify_onnx returns True only for a graph that its backends checked
\* and that has no structural, shape or range defect.
Claim_C28 ==
    ret.verify = "True" => (verified.backend = "ok" /\ verified.defect = "none")

\* C28, amended: with onnx and onnxruntime importable, verify_onnx returns
\* True only for a graph without defect and raises for any other; without
\* them it returns True whatever the graph.
Thm_C28 ==
    /\ (ret.verify = "True" /\ verified.backend = "ok") => verified.defect = "none"
    /\ ret.verify = "raised" => (verified.backend = "ok" /\ verified.defect # "none")
    /\ (verified.backend = "missing") => ret.verify = "True"

\* a graph with the wrong output shape was given to a working verifier
Wit_C28 ==
    /\ verified.backend = "ok" /\ verified.defect = "shape"
    /\ ret.verify = "raised" /\ raised = "verify"
    /\ ~args.deploy

\* best_val_iou before the loop (lines 284, 294)
InitialBest == IF tr.resume THEN tr.checkpoint.val_iou ELSE 0

\* the largest IoU among InitialBest and the first i entries of the log
RECURSIVE BestAfter(_)
BestAfter(i) ==
    IF i = 0 THEN InitialBest
    ELSE IF tr.training_log[i].val_iou > BestAfter(i - 1)
         THEN tr.training_log[i].val_iou ELSE BestAfter(i - 1)

\* entry i of the log strictly exceeds everything before it
Improved(i) == tr.training_log[i].val_iou > BestAfter(i - 1)

\* the number of consecutive entries up to i that did not improve
RECURSIVE Stale(_)
Stale(i) == IF i = 0 \/ Improved(i) THEN 0 ELSE Stale(i - 1) + 1

\* what best_model.pth was written with, once per improving entry
RECURSIVE BestWrites(_)
BestWrites(i) ==
    IF i = 0 THEN <<>>
    ELSE IF Improved(i)
         THEN Append(BestWrites(i - 1),
                     save_checkpoint(tr.training_log[i].epoch, tr.training_log[i].val_iou))
         ELSE BestWrites(i - 1)

\* the loop's variables are what the log of the epochs run so far implies
TrainInv ==
    LET n == Len(tr.training_log) IN
    /\ \A i \in 1..n : /\ tr.training_log[i].epoch = tr.start_epoch + i - 1
                       /\ tr.training_log[i].epoch < tr.epochs
    /\ tr.best_val_iou = BestAfter(n)
    /\ tr.patience_counter = Stale(n)
    /\ tr.best_model = BestWrites(n)
    /\ \A i \in 1..(n - 1) : Stale(i) < tr.early_stopping
    /\ tr.stopped <=> (n >= 1 /\ Stale(n) >= tr.early_stopping)
    /\ pc = "train" => ~tr.stopped
    /\ pc # "train" => (tr.stopped \/ range_next(tr) >= tr.epochs)

\* C29: the loop ends; it stops by break exactly after the first epoch at
\* which patience_counter, the count of consecutive non-improving epochs,
\* has reached the patience; best_val_iou never decreases; best_model.pth is
\* written exactly at the strictly improving epochs.
Thm_C29 ==
    /\ []TrainInv
    /\ [][tr'.best_val_iou >= tr.best_val_iou]_vars
    /\ <>(pc # "train")

\* an improving epoch, then two that did not improve: stopped before the
\* fourth epoch of the budget
Wit_C29 ==
    /\ pc = "trained" /\ tr.stopped
    /\ tr.epochs = 4 /\ tr.early_stopping = 2 /\ tr.start_epoch = 0
    /\ Len(tr.training_log) = 3 /\ Len(tr.best_model) = 1
    /\ tr.best_val_iou = 2

\* C30: main of train.py ends with final_model.pth saved with the epoch and
\* validation IoU of the last epoch that ran.
Claim_C30 ==
    (pc = "trained" \/ raised = "final_model") =>
        /\ raised = "none"
        /\ tr.training_log # <<>>
        /\ tr.final_model =
              <<save_checkpoint(tr.training_log[Len(tr.training_log)].epoch,
                                tr.training_log[Len(tr.training_log)].val_iou)>>
====
